---- MODULE Spec2Model ----
(***************************************************************************)
(* Ingestion and query pipeline of the RAG paper chatbot backend           *)
(* (backend/app): the PDF endpoints of api/endpoints/pdf.py with their     *)
(* background vectorization task, Vectorizer (core/vectorizer.py) over the *)
(* ChromaDB collection, and RAGEngine.generate_answer (core/rag_engine.py).*)
(***************************************************************************)
EXTENDS Integers, Sequences, FiniteSets, TLC

\* ------------------------------------------------------------------------
\* Bounds of the model
\* ------------------------------------------------------------------------
MaxDocs == 2      \* PDF rows ever created (uuid primary keys are never reused)
MaxTasks == 2     \* background tasks ever scheduled
MaxChunks == 2    \* chunks the extraction of one file yields at most

Docs == 1..MaxDocs
Tasks == 1..MaxTasks
ChunkNos == 1..MaxChunks
\* chunk id f"{Path(file_path).stem}_page{p}_chunk{n}": the stem is the
\* uuid file name of one upload, so a chunk id is (document, ordinal)
ChunkIds == Docs \X ChunkNos

NoRow == "no_row"
NoEntry == [pdf_id |-> 0, created_by |-> 0, embedding |-> "none", content |-> <<0, 0>>]

VARIABLES
    pdf_rows,       \* PDFDocument table: vectorization_status per id, NoRow when absent
    uploaded,       \* number of rows ever inserted
    file_chunks,    \* what _extract_text_chunks_sync yields for the stored file
    file_on_disk,   \* the uploaded file exists under UPLOAD_DIR
    collection,     \* ChromaDB collection "paper_chunks": chunk id -> entry
    tasks,          \* background tasks (vectorize_pdf_background invocations)
    search_out,     \* result of the last Vectorizer.search_similar call
    q_out,          \* result of the last RAGEngine.generate_answer call
    retrieval,      \* a call of RAGEngine._retrieve_relevant_chunks, with what it saw
    context_out,    \* a call of _build_context or _build_summary_context
    chunker_out,    \* a call of PDFProcessor._create_chunks
    vector_store,   \* the standalone VectorStore: its collection and its last results
    cleaner_out,    \* a call of PDFProcessor._clean_text
    doc,            \* one document on its way from file to index
    chat            \* SessionPDF table and the add_pdfs_to_session requests

vars == <<pdf_rows, uploaded, file_chunks, file_on_disk, collection, tasks,
          search_out, q_out, retrieval, context_out, chunker_out,
          vector_store, cleaner_out, doc, chat>>

ingest_vars == <<pdf_rows, uploaded, file_chunks, file_on_disk, collection, tasks>>

\* ------------------------------------------------------------------------
\* Background task bookkeeping
\* ------------------------------------------------------------------------
IdleTask ==
    [pc |-> "idle", pdf_id |-> 0, origin |-> "none", raced |-> FALSE, text_chunks |-> -1,
     opened |-> FALSE, i |-> 0, chunk_result |-> [k \in ChunkNos |-> "none"],
     reached_update |-> FALSE, except_cause |-> "none", writes |-> << >>]

Scheduled == {t \in Tasks : tasks[t].pc # "idle"}
FreeTask == Cardinality(Scheduled) + 1
Running(t) == tasks[t].pc \in {"extracting", "embedding"}
Done(t) == tasks[t].pc = "done"
TasksOf(d) == {t \in Scheduled : tasks[t].pdf_id = d}
LatestTask(d) == CHOOSE t \in TasksOf(d) : \A u \in TasksOf(d) : u <= t
RowExists(d) == pdf_rows[d] # NoRow
Deleted(d) == d <= uploaded /\ pdf_rows[d] = NoRow
EntriesOf(coll, d) == {c \in ChunkIds : coll[c] # NoEntry /\ coll[c].pdf_id = d}

\* chunk['content'] of the chunk with this id: extraction is a function of the
\* stored file, so the text is identified by the chunk id
ChunkContent(c) == c

\* background_tasks.add_task(vectorize_pdf_background, pdf.id, file_path, metadata)
\* (raced records whether another task of the document was still unfinished
\* when this one was scheduled)
add_task(d, origin) ==
    [tasks EXCEPT ![FreeTask] = [IdleTask EXCEPT !.pc = "queued", !.pdf_id = d,
                                                 !.origin = origin,
                                                 !.raced = \E u \in TasksOf(d) : ~Done(u)]]

\* ------------------------------------------------------------------------
\* database.get_db and its use by the background task
\* ------------------------------------------------------------------------
\* get_db is an `async def` containing `yield`, without @asynccontextmanager:
\* calling it returns an async generator object, which has no __aenter__.
\* FastAPI's Depends(get_db) drives the generator itself, but
\* `async with get_db() as db:` (pdf.py:278 and pdf.py:296) raises TypeError
\* before its body runs.
AsyncWithGetDb == "TypeError"

\* pdf.py:277-305: the status update after vectorize_document, and the except
\* handler of the task.  exc is the exception raised before line 277, if any
\* ("none" when extraction and vectorize_document returned).
\* Result: the new table, the statuses this task wrote, and what entered the
\* handler.
StatusUpdate(rows, d, exc) ==
    LET tryRaised == exc = "none" /\ AsyncWithGetDb # "session"
        cause == IF exc # "none" THEN exc
                 ELSE IF tryRaised THEN "get_db" ELSE "none"
        tryWrites == exc = "none" /\ ~tryRaised /\ rows[d] # NoRow
        handlerWrites == cause # "none" /\ AsyncWithGetDb = "session"
                         /\ rows[d] # NoRow
    IN  [rows |-> IF tryWrites THEN [rows EXCEPT ![d] = "completed"]
                  ELSE IF handlerWrites THEN [rows EXCEPT ![d] = "failed"]
                  ELSE rows,
         writes |-> IF tryWrites THEN <<"completed">>
                    ELSE IF handlerWrites THEN <<"failed">>
                    ELSE << >>,
         cause |-> cause]

\* the task leaves vectorize_pdf_background: trec is its record after the last
\* step of the try block, exc the exception that step raised ("none" if none)
Finish(t, trec, exc) ==
    LET u == StatusUpdate(pdf_rows, trec.pdf_id, exc)
    IN  /\ pdf_rows' = u.rows
        /\ tasks' = [tasks EXCEPT ![t] = [trec EXCEPT !.pc = "done",
                                                      !.reached_update = (exc = "none"),
                                                      !.except_cause = u.cause,
                                                      !.writes = u.writes]]

\* ------------------------------------------------------------------------
\* Vectorizer over the ChromaDB collection
\* ------------------------------------------------------------------------
\* vectorizer.py:117-122 self.collection.add(...) of one chunk.  Chroma's add
\* is not an upsert: an id that is already stored keeps its stored entry (the
\* call is ignored or raises, and the raise is caught at vectorizer.py:126).
collection_add(coll, c, d, t) ==
    IF coll[c] # NoEntry THEN coll
    ELSE [coll EXCEPT ![c] = [pdf_id |-> d, created_by |-> t, embedding |-> "vector",
                              content |-> ChunkContent(c)]]

\* vectorizer.py:95-128, one iteration of the loop of vectorize_document:
\* emb_ok is whether _generate_embedding returned a vector (it returns None on
\* any failure, vectorizer.py:137-160), add_ok whether collection.add returned.
ChunkOutcome(coll, c, emb_ok, add_ok) ==
    IF ~emb_ok THEN "emb_failed"            \* logged, `continue`
    ELSE IF ~add_ok THEN "add_failed"       \* caught, logged, `continue`
    ELSE IF coll[c] # NoEntry THEN "exists"
    ELSE "added"

vectorize_chunk(coll, c, d, t, emb_ok, add_ok) ==
    IF emb_ok /\ add_ok THEN collection_add(coll, c, d, t) ELSE coll

\* vectorizer.py:241-254 delete_document: collection.delete(where pdf_id);
\* a failure is caught and only logged (returns False)
delete_document(coll, d, ok) ==
    IF ok THEN [c \in ChunkIds |-> IF coll[c] # NoEntry /\ coll[c].pdf_id = d
                                   THEN NoEntry ELSE coll[c]]
    ELSE coll

\* ------------------------------------------------------------------------
\* Endpoints of pdf.py
\* ------------------------------------------------------------------------
\* POST /upload (pdf.py:35-109) for a file that passes validation and whose
\* metadata extraction succeeds: the row is inserted with status pending and
\* the background task is scheduled.  n is what the file will chunk into.
upload_pdf(n) ==
    /\ uploaded < MaxDocs
    /\ FreeTask \in Tasks
    /\ LET d == uploaded + 1
       IN  /\ uploaded' = d
           /\ pdf_rows' = [pdf_rows EXCEPT ![d] = "pending"]
           /\ file_chunks' = [file_chunks EXCEPT ![d] = n]
           /\ file_on_disk' = [file_on_disk EXCEPT ![d] = TRUE]
           /\ tasks' = add_task(d, "upload")
    /\ UNCHANGED <<collection, search_out, q_out,
                   retrieval, context_out, chunker_out,
                   vector_store, cleaner_out, doc, chat>>

\* DELETE /{pdf_id} (pdf.py:182-219); 404 when the row is absent.
\* index_ok: whether collection.delete succeeded.
delete_pdf(d, index_ok) ==
    /\ RowExists(d)
    /\ file_on_disk' = [file_on_disk EXCEPT ![d] = FALSE]
    /\ collection' = delete_document(collection, d, index_ok)
    /\ pdf_rows' = [pdf_rows EXCEPT ![d] = NoRow]
    /\ UNCHANGED <<uploaded, file_chunks, tasks, search_out, q_out,
                   retrieval, context_out, chunker_out,
                   vector_store, cleaner_out, doc, chat>>

\* POST /{pdf_id}/reprocess (pdf.py:222-261); 404 when the row is absent.
reprocess_pdf(d) ==
    /\ RowExists(d)
    /\ FreeTask \in Tasks
    /\ pdf_rows' = [pdf_rows EXCEPT ![d] = "pending"]
    /\ tasks' = add_task(d, "reprocess")
    /\ UNCHANGED <<uploaded, file_chunks, file_on_disk, collection, search_out, q_out,
                   retrieval, context_out, chunker_out,
                   vector_store, cleaner_out, doc, chat>>

\* ------------------------------------------------------------------------
\* vectorize_pdf_background (pdf.py:266-305), one action per await point
\* ------------------------------------------------------------------------
\* the task starts and hands _extract_text_chunks_sync to the executor
\* (pdf.py:269-272, pdf_processor.py:41-49), where fitz.open(file_path) opens
\* the file if it is still there (pdf_processor.py:118)
BgStart(t) ==
    /\ tasks[t].pc = "queued"
    /\ tasks' = [tasks EXCEPT ![t].pc = "extracting",
                              ![t].opened = file_on_disk[tasks[t].pdf_id]]
    /\ UNCHANGED <<pdf_rows, uploaded, file_chunks, file_on_disk, collection,
                   search_out, q_out,
                   retrieval, context_out, chunker_out,
                   vector_store, cleaner_out, doc, chat>>

\* extraction raises (fitz.open on a removed or unreadable file, re-raised at
\* pdf_processor.py:51-53 and :146-148): the handler at pdf.py:291 runs
BgExtractRaise(t) ==
    /\ tasks[t].pc = "extracting"
    /\ Finish(t, tasks[t], "extract")
    /\ UNCHANGED <<uploaded, file_chunks, file_on_disk, collection, search_out, q_out,
                   retrieval, context_out, chunker_out,
                   vector_store, cleaner_out, doc, chat>>

\* extraction returns the chunk list; vectorize_document is entered
\* (vectorizer.py:87-92).  An empty list makes it return False, which
\* pdf.py:275 discards.
BgExtractReturn(t) ==
    /\ tasks[t].pc = "extracting"
    /\ tasks[t].opened
    /\ LET n == file_chunks[tasks[t].pdf_id]
           trec == [tasks[t] EXCEPT !.text_chunks = n]
       IN  IF n = 0
           THEN Finish(t, trec, "none")
           ELSE /\ tasks' = [tasks EXCEPT ![t] = [trec EXCEPT !.pc = "embedding", !.i = 1]]
                /\ UNCHANGED pdf_rows
    /\ UNCHANGED <<uploaded, file_chunks, file_on_disk, collection, search_out, q_out,
                   retrieval, context_out, chunker_out,
                   vector_store, cleaner_out, doc, chat>>

\* the embedding request of chunk i completes; the chunk is stored or skipped;
\* after the last chunk vectorize_document returns True and the status is
\* updated (vectorizer.py:95-131, pdf.py:277-305)
BgEmbed(t, emb_ok, add_ok) ==
    /\ tasks[t].pc = "embedding"
    /\ LET d == tasks[t].pdf_id
           k == tasks[t].i
           c == <<d, k>>
           trec == [tasks[t] EXCEPT
                       !.chunk_result[k] = ChunkOutcome(collection, c, emb_ok, add_ok),
                       !.i = k + 1]
       IN  /\ collection' = vectorize_chunk(collection, c, d, t, emb_ok, add_ok)
           /\ IF k = tasks[t].text_chunks
              THEN Finish(t, trec, "none")
              ELSE /\ tasks' = [tasks EXCEPT ![t] = trec]
                   /\ UNCHANGED pdf_rows
    /\ UNCHANGED <<uploaded, file_chunks, file_on_disk, search_out, q_out,
                   retrieval, context_out, chunker_out,
                   vector_store, cleaner_out, doc, chat>>

\* ------------------------------------------------------------------------
\* Vectorizer.search_similar (vectorizer.py:162-216)
\* ------------------------------------------------------------------------
SIMILARITY_THRESHOLD == 70     \* settings.SIMILARITY_THRESHOLD = 0.7, in hundredths
Distances == {10, 30, 40}      \* cosine distances the index reports, in hundredths

\* the where clause of vectorizer.py:178-181, 187.  pdf_ids is the list the
\* caller supplies (chat.py:116-120 and 408-412 always pass a list); `if
\* pdf_ids:` is false for the empty list, and then the query is unrestricted
Matching(coll, pdf_ids) ==
    {c \in ChunkIds : coll[c] # NoEntry
                      /\ (pdf_ids = {} \/ coll[c].pdf_id \in pdf_ids)}

Min(a, b) == IF a <= b THEN a ELSE b

\* collection.query(n_results=top_k, where=...): the possible answers of the
\* index, a ranking of top_k matching entries (all of them when fewer match),
\* each with the distance the index reports for it
QueryResponses(coll, pdf_ids, top_k) ==
    LET m == Matching(coll, pdf_ids)
        n == Min(top_k, Cardinality(m))
    IN  {r \in [1..n -> m \X Distances] :
            \A a, b \in 1..n : a # b => r[a][1] # r[b][1]}

\* what search_similar gets from the index: an answer of collection.query when
\* the query is made and returns, nothing otherwise
IndexAnswers(coll, pdf_ids, top_k, queried) ==
    IF queried THEN QueryResponses(coll, pdf_ids, top_k) ELSE {<< >>}

\* the filter with `similarity_score > similarity_threshold`
RECURSIVE ThresholdFilter_Strict(_, _, _, _)
ThresholdFilter_Strict(coll, resp, i, threshold) ==
    IF i > Len(resp) THEN << >>
    ELSE LET c == resp[i][1]
             similarity_score == 100 - resp[i][2]
             rest == ThresholdFilter_Strict(coll, resp, i + 1, threshold)
         IN  IF similarity_score > threshold
             THEN <<[id |-> c, content |-> coll[c].content,
                     pdf_id |-> coll[c].pdf_id,
                     similarity_score |-> similarity_score, rank |-> i]>> \o rest
             ELSE rest

\* vectorizer.py:191-209: the candidates at rank >= i that pass the threshold
RECURSIVE ThresholdFilter(_, _, _, _)
ThresholdFilter(coll, resp, i, threshold) ==
    IF i > Len(resp) THEN << >>
    ELSE LET c == resp[i][1]
             similarity_score == 100 - resp[i][2]
             rest == ThresholdFilter(coll, resp, i + 1, threshold)
         IN  IF similarity_score >= threshold
             THEN <<[id |-> c, content |-> coll[c].content,
                     pdf_id |-> coll[c].pdf_id,
                     similarity_score |-> similarity_score, rank |-> i]>> \o rest
             ELSE rest

\* search_similar: emb_ok is whether the query embedding was produced,
\* query_ok whether collection.query returned; both failures end in
\* `return []` (vectorizer.py:174-176 and 214-216)
search_similar(coll, resp, emb_ok, query_ok, threshold) ==
    IF ~emb_ok THEN << >>
    ELSE IF ~query_ok THEN << >>
    ELSE ThresholdFilter(coll, resp, 1, threshold)

NoSearch == [called |-> FALSE, query_failed |-> FALSE, raised |-> FALSE, results |-> 0]

\* a caller invokes search_similar on the current collection
SearchSimilar(pdf_ids, top_k, emb_ok, query_ok) ==
    /\ \E resp \in IndexAnswers(collection, pdf_ids, top_k, emb_ok /\ query_ok) :
          LET res == search_similar(collection, resp, emb_ok, query_ok,
                                    SIMILARITY_THRESHOLD)
          IN  search_out' = [called |-> TRUE,
                             query_failed |-> emb_ok /\ ~query_ok,
                             raised |-> FALSE,
                             results |-> Len(res)]
    /\ UNCHANGED <<pdf_rows, uploaded, file_chunks, file_on_disk, collection,
                   tasks, q_out,
                   retrieval, context_out, chunker_out,
                   vector_store, cleaner_out, doc, chat>>

\* ------------------------------------------------------------------------
\* RAGEngine (rag_engine.py)
\* ------------------------------------------------------------------------
MaxSources == 2
Questions == {"q1", "q2"}

\* The texts of the stored files.  The word set of
\* chunk['content'].lower().strip().split(): every file opens with the same
\* paragraph (words 1..5); the second chunk of document 1 shares four of those
\* five words (Jaccard 0.8), that of document 2 adds a sixth (Jaccard 5/6);
\* all other chunks have words of their own.
ContentWords(content) ==
    CASE content[2] = 1 -> 1..5
      [] content[2] = 2 /\ content[1] = 1 -> 1..4
      [] content[2] = 2 /\ content[1] = 2 -> 1..6
      [] OTHER -> {10 * content[1] + content[2]}

\* len(chunk['content']) of the same texts
ContentLen(content) ==
    CASE content[2] = 1 -> 200
      [] content[2] = 2 -> 201
      [] OTHER -> 1000

\* the duplicate test with `>= 0.8`
SimilarityAbove80_AtLeast(words1, words2) ==
    IF words1 = {} \/ words2 = {} THEN FALSE
    ELSE 5 * Cardinality(words1 \cap words2) >= 4 * Cardinality(words1 \cup words2)

\* rag_engine.py:129-140 _calculate_similarity(...) > 0.8, on word sets:
\* |w1 & w2| / |w1 | w2| > 0.8, and 0.0 when either set is empty
SimilarityAbove80(words1, words2) ==
    IF words1 = {} \/ words2 = {} THEN FALSE
    ELSE 5 * Cardinality(words1 \cap words2) > 4 * Cardinality(words1 \cup words2)

\* rag_engine.py:112-127
_is_duplicate_content(new_result, existing_results) ==
    \E j \in 1..Len(existing_results) :
        SimilarityAbove80(ContentWords(new_result.content),
                          ContentWords(existing_results[j].content))

\* the loop of rag_engine.py:96-103 without its `break`
RECURSIVE RetrieveLoop_NoBreak(_, _, _, _)
RetrieveLoop_NoBreak(search_results, i, filtered_results, max_sources) ==
    IF i > Len(search_results) THEN filtered_results
    ELSE LET result == search_results[i]
             appended == IF ~_is_duplicate_content(result, filtered_results)
                         THEN Append(filtered_results, result)
                         ELSE filtered_results
         IN  RetrieveLoop_NoBreak(search_results, i + 1, appended, max_sources)

\* rag_engine.py:96-103: the loop over search_results from position i on
RECURSIVE RetrieveLoop(_, _, _, _)
RetrieveLoop(search_results, i, filtered_results, max_sources) ==
    IF i > Len(search_results) THEN filtered_results
    ELSE LET result == search_results[i]
             appended == IF ~_is_duplicate_content(result, filtered_results)
                         THEN Append(filtered_results, result)
                         ELSE filtered_results
         IN  IF Len(appended) >= max_sources THEN appended
             ELSE RetrieveLoop(search_results, i + 1, appended, max_sources)

\* rag_engine.py:79-110, given what search_similar returned
_retrieve_relevant_chunks(search_results, max_sources) ==
    RetrieveLoop(search_results, 1, << >>, max_sources)

\* rag_engine.py:222-239
_extract_source_info(chunks) ==
    [j \in 1..Len(chunks) |->
        [id |-> chunks[j].id,
         content_len |-> IF ContentLen(chunks[j].content) > 200 THEN 200 + 3
                         ELSE ContentLen(chunks[j].content),
         pdf_id |-> chunks[j].pdf_id,
         similarity_score |-> chunks[j].similarity_score]]

\* rag_engine.py:241-253 and 255-261: the two fixed answer texts
_generate_fallback_answer(question) == [kind |-> "fallback", arg |-> question]
_generate_error_answer(error_message) == [kind |-> "error", arg |-> error_message]
LLMAnswer == [kind |-> "llm", arg |-> "completion"]
NoText == [kind |-> "none", arg |-> "none"]

NoAnswer ==
    [pc |-> "idle", question |-> "none", pdf_ids |-> {}, max_sources |-> 0,
     retrieval_ran |-> FALSE, relevant_chunks |-> << >>, answer |-> NoText,
     sources |-> << >>, llm_calls |-> 0, llm_failed |-> FALSE, raised |-> FALSE]

\* generate_answer without its try/except: the exception leaves the call
Return_Propagates(q, answer, sources, exc) ==
    IF exc = "none"
    THEN [q EXCEPT !.pc = "returned", !.answer = answer, !.sources = sources]
    ELSE [q EXCEPT !.pc = "returned", !.raised = TRUE]

\* `return answer, sources` of generate_answer, or its except branch
\* (rag_engine.py:75-77), which turns any exception into the error answer
Return(q, answer, sources, exc) ==
    IF exc = "none"
    THEN [q EXCEPT !.pc = "returned", !.answer = answer, !.sources = sources]
    ELSE [q EXCEPT !.pc = "returned", !.answer = _generate_error_answer(exc),
                   !.sources = << >>]

\* generate_answer is called (rag_engine.py:38-56): without an OpenAI client it
\* raises at once, else it awaits the query embedding inside search_similar.
\* Calls share no state, so a behaviour follows one call.
QAsk(question, pdf_ids, max_sources, client) ==
    /\ q_out.pc = "idle"
    /\ LET q == [NoAnswer EXCEPT !.question = question, !.pdf_ids = pdf_ids,
                                 !.max_sources = max_sources]
       IN  q_out' = IF ~client THEN Return(q, NoText, << >>, "no_client")
                    ELSE [q EXCEPT !.pc = "retrieving"]
    /\ UNCHANGED <<pdf_rows, uploaded, file_chunks, file_on_disk, collection,
                   tasks, search_out,
                   retrieval, context_out, chunker_out,
                   vector_store, cleaner_out, doc, chat>>

\* generate_answer without the `if not relevant_chunks` branch
AfterRetrieval_NoEmptyCheck(q) ==
    [q EXCEPT !.pc = "generating", !.llm_calls = 1]

\* rag_engine.py:58-66: an empty list returns the fallback answer with no
\* sources; otherwise the context is built and the chat completion requested
AfterRetrieval(q) ==
    IF q.relevant_chunks = << >>
    THEN Return(q, _generate_fallback_answer(q.question), << >>, "none")
    ELSE [q EXCEPT !.pc = "generating", !.llm_calls = 1]

\* retrieval completes (rag_engine.py:52-56)
QRetrieve(emb_ok, query_ok) ==
    /\ q_out.pc = "retrieving"
    /\ \E resp \in IndexAnswers(collection, q_out.pdf_ids, q_out.max_sources * 2,
                                  emb_ok /\ query_ok) :
          LET search_results == search_similar(collection, resp, emb_ok, query_ok,
                                               SIMILARITY_THRESHOLD)
              relevant_chunks == _retrieve_relevant_chunks(search_results,
                                                           q_out.max_sources)
              q == [q_out EXCEPT !.retrieval_ran = TRUE,
                                 !.relevant_chunks = relevant_chunks]
          IN  q_out' = AfterRetrieval(q)
    /\ UNCHANGED <<pdf_rows, uploaded, file_chunks, file_on_disk, collection,
                   tasks, search_out,
                   retrieval, context_out, chunker_out,
                   vector_store, cleaner_out, doc, chat>>

\* the chat completion returns or fails (rag_engine.py:66-77, 169-193)
QGenerate(llm_ok) ==
    /\ q_out.pc = "generating"
    /\ q_out' = IF llm_ok
                THEN Return(q_out, LLMAnswer, _extract_source_info(q_out.relevant_chunks),
                            "none")
                ELSE Return([q_out EXCEPT !.llm_failed = TRUE], NoText, << >>,
                            "llm_failed")
    /\ UNCHANGED <<pdf_rows, uploaded, file_chunks, file_on_disk, collection,
                   tasks, search_out,
                   retrieval, context_out, chunker_out,
                   vector_store, cleaner_out, doc, chat>>

\* ------------------------------------------------------------------------
\* RAGEngine._retrieve_relevant_chunks as a function of the index's answer
\* ------------------------------------------------------------------------
NoRetrieval ==
    [called |-> FALSE, pdf_ids |-> {}, max_sources |-> 0, top_k |-> 0,
     resp |-> << >>, search_results |-> << >>, relevant_chunks |-> << >>]

\* rag_engine.py:87-92: search_similar(query=question, pdf_ids=pdf_ids,
\* top_k=max_sources * 2, similarity_threshold=settings.SIMILARITY_THRESHOLD),
\* then the loop of rag_engine.py:95-103 over what it returned
Retrieve(pdf_ids, max_sources, emb_ok, query_ok) ==
    /\ ~retrieval.called
    /\ LET top_k == max_sources * 2
       IN  \E resp \in IndexAnswers(collection, pdf_ids, top_k, emb_ok /\ query_ok) :
              LET search_results == search_similar(collection, resp, emb_ok, query_ok,
                                                   SIMILARITY_THRESHOLD)
              IN  retrieval' =
                      [called |-> TRUE, pdf_ids |-> pdf_ids,
                       max_sources |-> max_sources, top_k |-> top_k, resp |-> resp,
                       search_results |-> search_results,
                       relevant_chunks |->
                           _retrieve_relevant_chunks(search_results, max_sources)]
    /\ UNCHANGED <<pdf_rows, uploaded, file_chunks, file_on_disk, collection, tasks,
                   search_out, q_out, context_out, chunker_out,
                   vector_store, cleaner_out, doc, chat>>

\* ------------------------------------------------------------------------
\* RAGEngine._build_context and _build_summary_context (rag_engine.py:142-167,
\* 307-332).  A string is the sequence of its pieces, each with its length in
\* characters: a source marker, a line break, the content of a chunk, or the
\* "..." appended on truncation.
\* ------------------------------------------------------------------------
MaxCtxChunks == 2
MaxPage == 2

\* len(chunk['content']) of the chunks handed to the builders: short ones,
\* and ones that bring a single part to the limit and one character past it
ContextLens == {200, 3975, 3976, 5991, 5992}

CtxChunks == [content_len : ContextLens, page_number : 1..MaxPage]

RECURSIVE SeqsUpTo(_, _)
SeqsUpTo(S, n) ==
    IF n = 0 THEN {<< >>}
    ELSE LET shorter == SeqsUpTo(S, n - 1)
         IN  shorter \cup {Append(q, x) : q \in {r \in shorter : Len(r) = n - 1}, x \in S}

Piece(kind, n, len) == [kind |-> kind, n |-> n, len |-> len]
Newline == Piece("newline", 0, 1)

\* len(f"[출처 {i+1}: {title} - 페이지 {page_number}]") with the title
\* 'Unknown' and one-digit numbers, and len(f"[페이지 {page_num}]")
SourceMarkerLen == 23
PageMarkerLen == 7

RECURSIVE StrLen(_)
StrLen(str) ==
    IF str = << >> THEN 0 ELSE Head(str).len + StrLen(Tail(str))

\* str[:n]
RECURSIVE Slice(_, _)
Slice(str, n) ==
    IF str = << >> \/ n <= 0 THEN << >>
    ELSE IF Head(str).len <= n
         THEN <<Head(str)>> \o Slice(Tail(str), n - Head(str).len)
         ELSE <<[Head(str) EXCEPT !.len = n]>>

\* "\n".join(context_parts)
RECURSIVE Join(_)
Join(parts) ==
    IF parts = << >> THEN << >>
    ELSE IF Len(parts) = 1 THEN parts[1]
    ELSE parts[1] \o <<Newline>> \o Join(Tail(parts))

\* truncation written with `>=`
Truncate_AtLimit(context, max_length) ==
    IF StrLen(context) >= max_length
    THEN Slice(context, max_length) \o <<Piece("ellipsis", 0, 3)>>
    ELSE context

\* rag_engine.py:159-162 and 327-330: if len(context) > max: context[:max] + "..."
Truncate(context, max_length) ==
    IF StrLen(context) > max_length
    THEN Slice(context, max_length) \o <<Piece("ellipsis", 0, 3)>>
    ELSE context

\* rag_engine.py:146-157: f"{source_info}\n{content}\n" for each chunk, joined
ContextParts(chunks) ==
    [i \in 1..Len(chunks) |->
        <<Piece("source", i, SourceMarkerLen), Newline,
          Piece("content", i, chunks[i].content_len), Newline>>]

\* sorted(chunks, key=page_number): a stable sort, as the positions of chunks
SortedByPage(chunks) ==
    CHOOSE perm \in [1..Len(chunks) -> 1..Len(chunks)] :
        /\ \A a, b \in 1..Len(chunks) : a # b => perm[a] # perm[b]
        /\ \A a, b \in 1..Len(chunks) :
              a < b => \/ chunks[perm[a]].page_number < chunks[perm[b]].page_number
                       \/ (chunks[perm[a]].page_number = chunks[perm[b]].page_number
                              /\ perm[a] < perm[b])

\* rag_engine.py:313-323: f"[페이지 {page_num}]\n{content}\n" in page order
SummaryParts(chunks) ==
    LET perm == SortedByPage(chunks)
    IN  [i \in 1..Len(chunks) |->
            <<Piece("page", chunks[perm[i]].page_number, PageMarkerLen), Newline,
              Piece("content", perm[i], chunks[perm[i]].content_len), Newline>>]

NoContext ==
    [called |-> FALSE, fn |-> "none", chunks |-> << >>, max_length |-> 0,
     assembled |-> << >>, context |-> << >>]

\* _build_context(chunks): generate_answer calls it with the retrieved chunks
BuildContext(chunks) ==
    /\ ~context_out.called
    /\ LET max_context_length == 4000
           context == Join(ContextParts(chunks))
       IN  context_out' = [called |-> TRUE, fn |-> "_build_context", chunks |-> chunks,
                           max_length |-> max_context_length, assembled |-> context,
                           context |-> Truncate(context, max_context_length)]
    /\ UNCHANGED <<pdf_rows, uploaded, file_chunks, file_on_disk, collection, tasks,
                   search_out, q_out, retrieval, chunker_out,
                   vector_store, cleaner_out, doc, chat>>

\* _build_summary_context(chunks): generate_summary calls it with all chunks
BuildSummaryContext(chunks) ==
    /\ ~context_out.called
    /\ LET max_length == 6000
           context == Join(SummaryParts(chunks))
       IN  context_out' = [called |-> TRUE, fn |-> "_build_summary_context",
                           chunks |-> chunks, max_length |-> max_length,
                           assembled |-> context,
                           context |-> Truncate(context, max_length)]
    /\ UNCHANGED <<pdf_rows, uploaded, file_chunks, file_on_disk, collection, tasks,
                   search_out, q_out, retrieval, chunker_out,
                   vector_store, cleaner_out, doc, chat>>

NextContext ==
    \/ \E chunks \in SeqsUpTo(CtxChunks, MaxCtxChunks) \ {<< >>} : BuildContext(chunks)
    \/ \E chunks \in SeqsUpTo(CtxChunks, MaxCtxChunks) \ {<< >>} :
          BuildSummaryContext(chunks)

\* ------------------------------------------------------------------------
\* PDFProcessor._create_chunks (pdf_processor.py:172-233).  The page text is
\* given as text.split('\n\n') leaves it after strip(): the list of its
\* paragraphs, each by its length, 0 for a part that is blank.  A string is
\* the sequence of its pieces: characters start .. start + len - 1 of
\* paragraph n, or of a "\n\n" separator.
\* ------------------------------------------------------------------------
MaxParagraphs == 3
chunk_size == 1000             \* self.chunk_size (pdf_processor.py:24)

\* self.chunk_overlap: 200 as the constructor sets it (pdf_processor.py:25),
\* and 0, the value the else branch of pdf_processor.py:217-218 is for
ChunkOverlaps == {200, 0}

\* len(paragraph.strip()) of the parts of a page
ParagraphLens == {0, 150, 600, 900, 1000, 1500, 2500}

ParaPiece(n, len) == [kind |-> "para", n |-> n, start |-> 0, len |-> len]
Separator == [kind |-> "sep", n |-> 0, start |-> 0, len |-> 2]

\* str[-n:]
RECURSIVE Suffix(_, _)
Suffix(str, n) ==
    IF str = << >> \/ n <= 0 THEN << >>
    ELSE LET last == str[Len(str)]
             front == SubSeq(str, 1, Len(str) - 1)
         IN  IF last.len <= n
             THEN Suffix(front, n - last.len) \o <<last>>
             ELSE <<[last EXCEPT !.start = last.start + last.len - n, !.len = n]>>

\* the chunk dict of pdf_processor.py:204-211 and 224-231
Chunk(current_chunk, chunk_id) ==
    [chunk_id |-> chunk_id, content |-> current_chunk,
     chunk_size |-> StrLen(current_chunk)]

\* a seed taken from the start of the emitted chunk
OverlapSeed_FromStart(current_chunk, chunk_overlap) ==
    IF chunk_overlap > 0 THEN Slice(current_chunk, chunk_overlap) ELSE << >>

\* pdf_processor.py:214-218: what the next buffer starts with
OverlapSeed(current_chunk, chunk_overlap) ==
    IF chunk_overlap > 0 THEN Suffix(current_chunk, chunk_overlap) ELSE << >>

\* a last step that passes over a buffer holding nothing but the seed
FinalChunk_NoSeedOnly(chunks, current_chunk, chunk_id) ==
    IF current_chunk # << >>
       /\ ~(chunks # << >>
            /\ current_chunk = Suffix(chunks[Len(chunks)].content, StrLen(current_chunk)))
    THEN Append(chunks, Chunk(current_chunk, chunk_id))
    ELSE chunks

\* _create_chunks without its last step
FinalChunk_Dropped(chunks, current_chunk, chunk_id) == chunks

\* pdf_processor.py:222-231: the buffer left after the last paragraph
FinalChunk(chunks, current_chunk, chunk_id) ==
    IF current_chunk # << >> THEN Append(chunks, Chunk(current_chunk, chunk_id))
    ELSE chunks

\* pdf_processor.py:190-220: the loop over the paragraphs from the k-th on
RECURSIVE ChunkLoop(_, _, _, _, _, _)
ChunkLoop(paragraphs, k, current_chunk, chunk_id, chunks, chunk_overlap) ==
    IF k > Len(paragraphs) THEN FinalChunk(chunks, current_chunk, chunk_id)
    ELSE IF paragraphs[k] = 0
         THEN ChunkLoop(paragraphs, k + 1, current_chunk, chunk_id, chunks,
                        chunk_overlap)
    ELSE LET paragraph == ParaPiece(k, paragraphs[k])
             added == IF current_chunk # << >>
                      THEN current_chunk \o <<Separator, paragraph>>
                      ELSE <<paragraph>>
         IN  IF StrLen(added) >= chunk_size
             THEN ChunkLoop(paragraphs, k + 1, OverlapSeed(added, chunk_overlap),
                            chunk_id + 1, Append(chunks, Chunk(added, chunk_id)),
                            chunk_overlap)
             ELSE ChunkLoop(paragraphs, k + 1, added, chunk_id, chunks,
                            chunk_overlap)

\* pdf_processor.py:172-233; a text that is blank returns no chunk
_create_chunks(paragraphs, chunk_overlap) ==
    IF \A k \in 1..Len(paragraphs) : paragraphs[k] = 0 THEN << >>
    ELSE ChunkLoop(paragraphs, 1, << >>, 0, << >>, chunk_overlap)

NoChunks ==
    [called |-> FALSE, paragraphs |-> << >>, chunk_overlap |-> 0, chunks |-> << >>]

\* a page's text is chunked
CreateChunks(paragraphs, chunk_overlap) ==
    /\ ~chunker_out.called
    /\ chunker_out' = [called |-> TRUE, paragraphs |-> paragraphs,
                       chunk_overlap |-> chunk_overlap,
                       chunks |-> _create_chunks(paragraphs, chunk_overlap)]
    /\ UNCHANGED <<pdf_rows, uploaded, file_chunks, file_on_disk, collection, tasks,
                   search_out, q_out, retrieval, context_out,
                   vector_store, cleaner_out, doc, chat>>

NextChunker ==
    \E paragraphs \in SeqsUpTo(ParagraphLens, MaxParagraphs),
       chunk_overlap \in ChunkOverlaps : CreateChunks(paragraphs, chunk_overlap)


\* ------------------------------------------------------------------------
\* The standalone VectorStore (src/backend/vector_store.py)
\* ------------------------------------------------------------------------
MaxTexts == 6
MaxBatchSize == 3
MaxDocuments == 3
VSDocs == 1..MaxDocuments      \* the documents handed to the store, by position

\* [0.0] * 1536, and the vector the provider returns for a text
ZeroVector == [kind |-> "zero", dim |-> 1536, of |-> 0]
ProviderVector(text) == [kind |-> "vector", dim |-> 1536, of |-> text]

\* a failed batch leaves nothing in all_embeddings
BatchEmbeddings_Dropped(batch, ok) ==
    IF ok THEN [j \in 1..Len(batch) |-> ProviderVector(batch[j])]
    ELSE << >>

\* vector_store.py:66-78: get_embeddings(batch) returns one vector per text or
\* raises; the except branch puts a zero vector in place of each text
BatchEmbeddings(batch, ok) ==
    IF ok THEN [j \in 1..Len(batch) |-> ProviderVector(batch[j])]
    ELSE [j \in 1..Len(batch) |-> ZeroVector]

\* vector_store.py:60-78: the loop `for i in range(0, len(texts), batch_size)`
\* from offset i on; failed is the set of batch numbers whose call raises
RECURSIVE BatchLoop(_, _, _, _, _)
BatchLoop(texts, i, batch_size, failed, all_embeddings) ==
    IF i >= Len(texts) THEN all_embeddings
    ELSE LET batch == SubSeq(texts, i + 1, Min(i + batch_size, Len(texts)))
             batch_num == (i \div batch_size) + 1
         IN  BatchLoop(texts, i + batch_size, batch_size, failed,
                       all_embeddings \o BatchEmbeddings(batch, batch_num \notin failed))

\* vector_store.py:53-81
get_embeddings_batch(texts, batch_size, failed) ==
    BatchLoop(texts, 0, batch_size, failed, << >>)

\* total_batches = (len(texts) + batch_size - 1) // batch_size
TotalBatches(n, batch_size) == (n + batch_size - 1) \div batch_size

NoBatchCall ==
    [called |-> FALSE, texts |-> << >>, batch_size |-> 0, failed |-> {},
     embeddings |-> << >>, raised |-> FALSE]

NoVSSearch ==
    [called |-> FALSE, n_results |-> 0, failed |-> FALSE, raised |-> FALSE,
     results |-> << >>]

\* collection: what the Chroma collection "research_papers" holds for each
\* document, "none" when absent; gen counts the resets, valid_add tells that
\* an add_documents call with a document that passed the length filter has
\* returned since the last reset
NoVSEntry == [gen |-> -1, embedding |-> "none", text_len |-> 0]
NoVectorStore ==
    [collection |-> [d \in VSDocs |-> NoVSEntry], gen |-> 0, valid_add |-> FALSE,
     batch |-> NoBatchCall, search |-> NoVSSearch]

\* get_embeddings_batch(texts, batch_size) is called on n texts
EmbedBatch(n, batch_size, failed) ==
    /\ ~vector_store.batch.called
    /\ LET texts == [j \in 1..n |-> j]
       IN  vector_store' =
               [vector_store EXCEPT !.batch =
                   [called |-> TRUE, texts |-> texts, batch_size |-> batch_size,
                    failed |-> failed,
                    embeddings |-> get_embeddings_batch(texts, batch_size, failed),
                    raised |-> FALSE]]
    /\ UNCHANGED <<pdf_rows, uploaded, file_chunks, file_on_disk, collection, tasks,
                   search_out, q_out, retrieval, context_out, chunker_out,
                   cleaner_out, doc, chat>>

MaxResets == 2
MaxResults == 2

\* len(doc['text'].strip()) of the documents: below the 10 of
\* vector_store.py:105, ordinary, and above 30000
TextLens == {5, 100, 30001}

\* what the collection holds when the store is opened: PersistentClient loads
\* what earlier runs left, here entries written before any reset
PersistedCollections ==
    [VSDocs -> {NoVSEntry, [gen |-> 0, embedding |-> "vector", text_len |-> 100]}]

\* vector_store.py:181-192: client.reset() empties the store, or raises
reset_collection(ok) ==
    /\ vector_store.gen < MaxResets
    /\ vector_store' =
           IF ok
           THEN [vector_store EXCEPT !.collection = [d \in VSDocs |-> NoVSEntry],
                                     !.gen = @ + 1, !.valid_add = FALSE,
                                     !.search = NoVSSearch]
           ELSE [vector_store EXCEPT !.search = NoVSSearch]
    /\ UNCHANGED <<pdf_rows, uploaded, file_chunks, file_on_disk, collection, tasks,
                   search_out, q_out, retrieval, context_out, chunker_out,
                   cleaner_out, doc, chat>>

\* vector_store.py:98-110: the positions of the documents that pass the
\* length filter, in order
RECURSIVE FilterDocuments(_, _)
FilterDocuments(lens, i) ==
    IF i > Len(lens) THEN << >>
    ELSE IF lens[i] < 10 THEN FilterDocuments(lens, i + 1)
    ELSE <<i>> \o FilterDocuments(lens, i + 1)

\* vector_store.py:83-148: lens are the text lengths of the documents.  The
\* filtered texts are embedded in batches of 50 and added in batches of 100;
\* an id the collection already holds keeps its entry; a failing
\* collection.add leaves the call by an exception.
add_documents(lens, failed, add_ok) ==
    /\ LET filtered_texts == FilterDocuments(lens, 1)
           embeddings == get_embeddings_batch(filtered_texts, 50, failed)
           added == [d \in VSDocs |->
                       IF /\ \E j \in 1..Len(filtered_texts) : filtered_texts[j] = d
                          /\ vector_store.collection[d] = NoVSEntry
                       THEN LET j == CHOOSE k \in 1..Len(filtered_texts) :
                                         filtered_texts[k] = d
                            IN  [gen |-> vector_store.gen,
                                 embedding |-> embeddings[j].kind,
                                 text_len |-> Min(lens[d], 30000)]
                       ELSE vector_store.collection[d]]
       IN  /\ failed \subseteq 1..TotalBatches(Len(filtered_texts), 50)
           /\ vector_store' =
                  IF lens = << >> \/ filtered_texts = << >>
                  THEN [vector_store EXCEPT !.search = NoVSSearch]
                  ELSE IF ~add_ok THEN [vector_store EXCEPT !.search = NoVSSearch]
                  ELSE [vector_store EXCEPT !.collection = added, !.valid_add = TRUE,
                                            !.search = NoVSSearch]
    /\ UNCHANGED <<pdf_rows, uploaded, file_chunks, file_on_disk, collection, tasks,
                   search_out, q_out, retrieval, context_out, chunker_out,
                   cleaner_out, doc, chat>>

\* collection.query(n_results=n): a ranking of n stored documents (all of them
\* when fewer are stored), each with a distance
VSQueryResponses(coll, n_results) ==
    LET stored == {d \in VSDocs : coll[d] # NoVSEntry}
        n == Min(n_results, Cardinality(stored))
    IN  {r \in [1..n -> stored \X Distances] :
            \A a, b \in 1..n : a # b => r[a][1] # r[b][1]}

\* vector_store.py:150-179: a failure of the query embedding or of the query
\* is caught and [] returned
vs_search_similar(n_results, emb_ok, query_ok) ==
    /\ \E resp \in (IF emb_ok /\ query_ok
                     THEN VSQueryResponses(vector_store.collection, n_results)
                     ELSE {<< >>}) :
          vector_store' =
              [vector_store EXCEPT !.search =
                  [called |-> TRUE, n_results |-> n_results,
                   failed |-> ~(emb_ok /\ query_ok), raised |-> FALSE,
                   results |-> [j \in 1..Len(resp) |->
                                   [text |-> resp[j][1], metadata |-> resp[j][1],
                                    distance |-> resp[j][2]]]]]
    /\ UNCHANGED <<pdf_rows, uploaded, file_chunks, file_on_disk, collection, tasks,
                   search_out, q_out, retrieval, context_out, chunker_out,
                   cleaner_out, doc, chat>>

NextVectorStore ==
    \/ \E ok \in BOOLEAN : reset_collection(ok)
    \/ \E lens \in SeqsUpTo(TextLens, MaxDocuments), failed \in SUBSET {1},
          add_ok \in BOOLEAN : add_documents(lens, failed, add_ok)
    \/ \E n_results \in 1..MaxResults, emb_ok \in BOOLEAN, query_ok \in BOOLEAN :
          vs_search_similar(n_results, emb_ok, query_ok)

NextEmbedBatch ==
    \E n \in 0..MaxTexts, batch_size \in 1..MaxBatchSize :
        \E failed \in SUBSET (1..TotalBatches(n, batch_size)) :
            EmbedBatch(n, batch_size, failed)

\* ------------------------------------------------------------------------
\* PDFProcessor._clean_text, character by character
\* ------------------------------------------------------------------------
MaxTextLen == 6

\* a letter, a digit, and the two whitespace characters that matter
Chars == {"a", "1", " ", "\n"}
IsSpace(ch) == ch \in {" ", "\n"}
IsDigit(ch) == ch = "1"

\* re.sub(r'\s+', ' ', text) from position i on; in_run: the character before
\* position i was whitespace
RECURSIVE CollapseFrom(_, _, _)
CollapseFrom(text, i, in_run) ==
    IF i > Len(text) THEN << >>
    ELSE IF IsSpace(text[i])
         THEN (IF in_run THEN << >> ELSE <<" ">>) \o CollapseFrom(text, i + 1, TRUE)
    ELSE <<text[i]>> \o CollapseFrom(text, i + 1, FALSE)

CollapseWhitespace(text) == CollapseFrom(text, 1, FALSE)

\* text.split('\n'): the lines from position i on, cur being the line so far
RECURSIVE SplitFrom(_, _, _)
SplitFrom(text, i, cur) ==
    IF i > Len(text) THEN <<cur>>
    ELSE IF text[i] = "\n" THEN <<cur>> \o SplitFrom(text, i + 1, << >>)
    ELSE SplitFrom(text, i + 1, Append(cur, text[i]))

SplitLines(text) == SplitFrom(text, 1, << >>)

\* '\n'.join(lines)
RECURSIVE JoinLines(_)
JoinLines(lines) ==
    IF lines = << >> THEN << >>
    ELSE IF Len(lines) = 1 THEN lines[1]
    ELSE lines[1] \o <<"\n">> \o JoinLines(Tail(lines))

\* line.strip()
RECURSIVE LStrip(_)
LStrip(line) ==
    IF line # << >> /\ IsSpace(line[1]) THEN LStrip(Tail(line)) ELSE line

RECURSIVE RStrip(_)
RStrip(line) ==
    IF line # << >> /\ IsSpace(line[Len(line)])
    THEN RStrip(SubSeq(line, 1, Len(line) - 1)) ELSE line

Strip(line) == RStrip(LStrip(line))

\* the line matches ^\s*\d+\s*$
IsPageNumberLine(line) ==
    /\ Strip(line) # << >>
    /\ \A j \in 1..Len(Strip(line)) : IsDigit(Strip(line)[j])

\* re.sub(r'^\s*\d+\s*$', '', text, flags=re.MULTILINE), line by line (exact
\* for the texts that reach it: after pdf_processor.py:156 none holds a "\n")
RemovePageNumbers(text) ==
    LET lines == SplitLines(text)
    IN  JoinLines([j \in 1..Len(lines) |->
                      IF IsPageNumberLine(lines[j]) THEN << >> ELSE lines[j]])

\* pdf_processor.py:162-168: strip every line, keep those longer than 3
KeepLongLines(text) ==
    LET lines == SplitLines(text)
        stripped == [j \in 1..Len(lines) |-> Strip(lines[j])]
        Long(line) == Len(line) > 3
    IN  SelectSeq(stripped, Long)

\* pdf_processor.py:150-170
_clean_text(text) ==
    IF text = << >> THEN << >>
    ELSE JoinLines(KeepLongLines(RemovePageNumbers(CollapseWhitespace(text))))

NoCleaning == [called |-> FALSE, text |-> << >>, cleaned |-> << >>]

\* a page's text is cleaned
CleanText(text) ==
    /\ ~cleaner_out.called
    /\ cleaner_out' = [called |-> TRUE, text |-> text, cleaned |-> _clean_text(text)]
    /\ UNCHANGED <<pdf_rows, uploaded, file_chunks, file_on_disk, collection, tasks,
                   search_out, q_out, retrieval, context_out, chunker_out,
                   vector_store, doc, chat>>

NextCleaner == \E text \in SeqsUpTo(Chars, MaxTextLen) : CleanText(text)
\* ------------------------------------------------------------------------
\* One document from file to index: _extract_text_chunks_sync over its pages,
\* vectorize_document over its chunks, the status update.
\* text_chunks is the list the last extraction returned, previous the list
\* the one before it returned; skipped counts the chunks of the current run
\* that vectorize_document passed over; reached_update is whether the run got
\* to pdf.py:277.
\* ------------------------------------------------------------------------
MaxPages == 2
MaxRuns == 2
ChunkOverlap == 200            \* self.chunk_overlap (pdf_processor.py:25)

\* len(cleaned_text) of a page; 0 for a page whose text is blank.  _clean_text
\* replaces every whitespace run by one space, so the cleaned text of a page
\* holds no "\n\n" and text.split('\n\n') yields it as one paragraph.
PageLens == {0, 400, 1500}

\* str(n)
RECURSIVE Digits(_)
Digits(n) == IF n < 10 THEN <<n>> ELSE Digits(n \div 10) \o <<n % 10>>

\* an id that leaves the page number out
ChunkIdString_NoPage(page_number, chunk_id) ==
    <<"stem", "_chunk">> \o Digits(chunk_id)

\* f"{Path(file_path).stem}_page{page_number}_chunk{chunk_id}"
ChunkIdString(page_number, chunk_id) ==
    <<"stem", "_page">> \o Digits(page_number) \o <<"_chunk">> \o Digits(chunk_id)

\* pdf_processor.py:133-137 for one page: the dicts _create_chunks returns
PageChunks(page_number, len) ==
    LET cs == _create_chunks(<<len>>, ChunkOverlap)
    IN  [j \in 1..Len(cs) |->
            [id |-> ChunkIdString(page_number, cs[j].chunk_id),
             content |-> cs[j].content,
             page_number |-> page_number,
             chunk_size |-> cs[j].chunk_size]]

\* pdf_processor.py:118-139: the loop over the pages from page_num on; a page
\* with blank text is skipped
RECURSIVE ExtractPages(_, _)
ExtractPages(pages, page_num) ==
    IF page_num > Len(pages) THEN << >>
    ELSE IF pages[page_num] = 0 THEN ExtractPages(pages, page_num + 1)
    ELSE PageChunks(page_num, pages[page_num]) \o ExtractPages(pages, page_num + 1)

_extract_text_chunks_sync(pages) == ExtractPages(pages, 1)

NoDocument ==
    [pc |-> "idle", pages |-> << >>, status |-> NoRow, runs |-> 0,
     extractions |-> 0, text_chunks |-> << >>, previous |-> << >>, i |-> 0,
     stored |-> {}, skipped |-> 0, reached_update |-> FALSE, writes |-> << >>]

\* pdf.py:277-305 for the one document
DocStatusUpdate(exc) ==
    StatusUpdate([d \in Docs |-> IF d = 1 THEN doc.status ELSE NoRow], 1, exc)

\* POST /upload (pdf.py:35-109) of a file with these pages
DocUpload(pages) ==
    /\ doc.pc = "idle"
    /\ doc' = [doc EXCEPT !.pc = "queued", !.pages = pages, !.status = "pending"]
    /\ UNCHANGED <<pdf_rows, uploaded, file_chunks, file_on_disk, collection, tasks,
                   search_out, q_out, retrieval, context_out, chunker_out,
                   vector_store, cleaner_out, chat>>

\* POST /{pdf_id}/reprocess (pdf.py:222-261) after the earlier task has ended
DocReprocess ==
    /\ doc.pc = "done"
    /\ doc.runs < MaxRuns
    /\ doc' = [doc EXCEPT !.pc = "queued", !.status = "pending",
                          !.reached_update = FALSE, !.skipped = 0, !.writes = << >>]
    /\ UNCHANGED <<pdf_rows, uploaded, file_chunks, file_on_disk, collection, tasks,
                   search_out, q_out, retrieval, context_out, chunker_out,
                   vector_store, cleaner_out, chat>>

\* pdf.py:269-272 with an extraction that raises: the handler at pdf.py:291
DocExtractRaise ==
    /\ doc.pc = "queued"
    /\ LET u == DocStatusUpdate("extract")
       IN  doc' = [doc EXCEPT !.pc = "done", !.runs = @ + 1, !.status = u.rows[1],
                              !.writes = u.writes]
    /\ UNCHANGED <<pdf_rows, uploaded, file_chunks, file_on_disk, collection, tasks,
                   search_out, q_out, retrieval, context_out, chunker_out,
                   vector_store, cleaner_out, chat>>

\* pdf.py:269-275: extraction returns; an empty list makes vectorize_document
\* return False (vectorizer.py:88-90), which pdf.py:275 discards
DocExtract ==
    /\ doc.pc = "queued"
    /\ LET chunks == _extract_text_chunks_sync(doc.pages)
           u == DocStatusUpdate("none")
       IN  doc' = IF chunks = << >>
                  THEN [doc EXCEPT !.pc = "done", !.runs = @ + 1,
                                   !.extractions = @ + 1, !.reached_update = TRUE,
                                   !.status = u.rows[1], !.writes = u.writes,
                                   !.previous = doc.text_chunks,
                                   !.text_chunks = chunks, !.i = 0]
                  ELSE [doc EXCEPT !.pc = "embedding", !.runs = @ + 1,
                                   !.extractions = @ + 1,
                                   !.previous = doc.text_chunks,
                                   !.text_chunks = chunks, !.i = 1]
    /\ UNCHANGED <<pdf_rows, uploaded, file_chunks, file_on_disk, collection, tasks,
                   search_out, q_out, retrieval, context_out, chunker_out,
                   vector_store, cleaner_out, chat>>

\* vectorizer.py:95-131 for chunk i, then pdf.py:277-305 after the last one;
\* collection.add of an id that is stored keeps the stored entry
DocEmbed(emb_ok, add_ok) ==
    /\ doc.pc = "embedding"
    /\ LET chunk == doc.text_chunks[doc.i]
           stored == IF emb_ok /\ add_ok /\ ~\E e \in doc.stored : e.id = chunk.id
                     THEN doc.stored \cup {[id |-> chunk.id,
                                            page_number |-> chunk.page_number,
                                            chunk_size |-> chunk.chunk_size]}
                     ELSE doc.stored
           skipped == IF emb_ok /\ add_ok THEN doc.skipped ELSE doc.skipped + 1
           u == DocStatusUpdate("none")
       IN  doc' = IF doc.i = Len(doc.text_chunks)
                  THEN [doc EXCEPT !.pc = "done", !.stored = stored, !.i = @ + 1,
                                   !.skipped = skipped, !.reached_update = TRUE,
                                   !.status = u.rows[1], !.writes = u.writes]
                  ELSE [doc EXCEPT !.stored = stored, !.i = @ + 1,
                                   !.skipped = skipped]
    /\ UNCHANGED <<pdf_rows, uploaded, file_chunks, file_on_disk, collection, tasks,
                   search_out, q_out, retrieval, context_out, chunker_out,
                   vector_store, cleaner_out, chat>>

NextDocument ==
    \/ \E pages \in SeqsUpTo(PageLens, MaxPages) : DocUpload(pages)
    \/ DocReprocess
    \/ DocExtractRaise
    \/ DocExtract
    \/ \E emb_ok \in BOOLEAN, add_ok \in BOOLEAN : DocEmbed(emb_ok, add_ok)
\* ------------------------------------------------------------------------
\* add_pdfs_to_session (chat.py:188-253) on one chat session
\* ------------------------------------------------------------------------
MaxRequests == 2
MaxIds == 2
Requests == 1..MaxRequests

\* vectorization_status of the rows of pdf_documents as a request finds them
PdfStatuses == {NoRow, "pending", "completed", "failed"}

NoRequest ==
    [pc |-> "idle", pdf_ids |-> << >>, staged |-> << >>, status_code |-> 0,
     added_pdfs |-> << >>, inserted |-> 0]

\* links[d]: the number of session_pdfs rows that join the session and d
NoChat == [links |-> [d \in Docs |-> 0], requests |-> [r \in Requests |-> NoRequest]]

\* chat.py:204-219: the status code the validation loop raises, 0 if none
RECURSIVE ValidateFrom(_, _)
ValidateFrom(pdf_ids, i) ==
    IF i > Len(pdf_ids) THEN 0
    ELSE IF pdf_rows[pdf_ids[i]] = NoRow THEN 404
    ELSE IF pdf_rows[pdf_ids[i]] # "completed" THEN 400
    ELSE ValidateFrom(pdf_ids, i + 1)

\* chat.py:194-219: the session lookup and the validation loop
AddPdfsValidate(r, pdf_ids, session_found) ==
    /\ chat.requests[r].pc = "idle"
    /\ LET code == IF ~session_found THEN 404 ELSE ValidateFrom(pdf_ids, 1)
       IN  chat' = [chat EXCEPT !.requests[r] =
                       IF code # 0
                       THEN [@ EXCEPT !.pc = "done", !.pdf_ids = pdf_ids,
                                      !.status_code = code]
                       ELSE [@ EXCEPT !.pc = "validated", !.pdf_ids = pdf_ids]]
    /\ UNCHANGED <<pdf_rows, uploaded, file_chunks, file_on_disk, collection, tasks,
                   search_out, q_out, retrieval, context_out, chunker_out,
                   vector_store, cleaner_out, doc>>

\* chat.py:222-238: for each id the select of an existing link, which reads
\* the table (the session is made with autoflush=False, database.py:33-39, so
\* objects added with db.add are not flushed before the select), then db.add.
\* Result: the ids staged, or "raise" when scalar_one_or_none finds two rows.
RECURSIVE LinkFrom(_, _, _)
LinkFrom(pdf_ids, i, staged) ==
    IF i > Len(pdf_ids) THEN staged
    ELSE IF chat.links[pdf_ids[i]] >= 2 THEN "raise"
    ELSE IF chat.links[pdf_ids[i]] = 0
         THEN LinkFrom(pdf_ids, i + 1, Append(staged, pdf_ids[i]))
    ELSE LinkFrom(pdf_ids, i + 1, staged)

AddPdfsLink(r) ==
    /\ chat.requests[r].pc = "validated"
    /\ LET staged == LinkFrom(chat.requests[r].pdf_ids, 1, << >>)
       IN  chat' = [chat EXCEPT !.requests[r] =
                       IF staged = "raise"
                       THEN [@ EXCEPT !.pc = "done", !.status_code = 500]
                       ELSE [@ EXCEPT !.pc = "staged", !.staged = staged]]
    /\ UNCHANGED <<pdf_rows, uploaded, file_chunks, file_on_disk, collection, tasks,
                   search_out, q_out, retrieval, context_out, chunker_out,
                   vector_store, cleaner_out, doc>>

\* the number of times d occurs in the sequence
Occurrences(seq, d) == Cardinality({j \in 1..Len(seq) : seq[j] = d})

\* chat.py:240-247: the commit inserts every staged row (session_pdfs has no
\* unique constraint on (session_id, pdf_id), schemas.py:193-206), or fails
\* and the handler answers 500 (chat.py:251-253)
AddPdfsCommit(r, commit_ok) ==
    /\ chat.requests[r].pc = "staged"
    /\ LET staged == chat.requests[r].staged
       IN  chat' =
              IF commit_ok
              THEN [chat EXCEPT
                      !.links = [d \in Docs |-> chat.links[d] + Occurrences(staged, d)],
                      !.requests[r] = [@ EXCEPT !.pc = "done", !.status_code = 200,
                                                !.added_pdfs = staged,
                                                !.inserted = Len(staged)]]
              ELSE [chat EXCEPT !.requests[r] = [@ EXCEPT !.pc = "done",
                                                          !.status_code = 500]]
    /\ UNCHANGED <<pdf_rows, uploaded, file_chunks, file_on_disk, collection, tasks,
                   search_out, q_out, retrieval, context_out, chunker_out,
                   vector_store, cleaner_out, doc>>

NextSession ==
    \/ \E r \in Requests, pdf_ids \in SeqsUpTo(Docs, MaxIds), session_found \in BOOLEAN :
          AddPdfsValidate(r, pdf_ids, session_found)
    \/ \E r \in Requests : AddPdfsLink(r)
    \/ \E r \in Requests, commit_ok \in BOOLEAN : AddPdfsCommit(r, commit_ok)

\* ------------------------------------------------------------------------
\* The ingestion system
\* ------------------------------------------------------------------------
Init ==
    /\ pdf_rows = [d \in Docs |-> NoRow]
    /\ uploaded = 0
    /\ file_chunks = [d \in Docs |-> 0]
    /\ file_on_disk = [d \in Docs |-> FALSE]
    /\ collection = [c \in ChunkIds |-> NoEntry]
    /\ tasks = [t \in Tasks |-> IdleTask]
    /\ search_out = NoSearch
    /\ q_out = NoAnswer
    /\ retrieval = NoRetrieval
    /\ context_out = NoContext
    /\ chunker_out = NoChunks
    /\ vector_store = NoVectorStore
    /\ cleaner_out = NoCleaning
    /\ doc = NoDocument
    /\ chat = NoChat

Next ==
    \/ \E n \in 0..MaxChunks : upload_pdf(n)
    \/ \E d \in Docs, index_ok \in BOOLEAN : delete_pdf(d, index_ok)
    \/ \E d \in Docs : reprocess_pdf(d)
    \/ \E t \in Tasks : BgStart(t)
    \/ \E t \in Tasks : BgExtractRaise(t)
    \/ \E t \in Tasks : BgExtractReturn(t)
    \/ \E t \in Tasks, emb_ok \in BOOLEAN, add_ok \in BOOLEAN : BgEmbed(t, emb_ok, add_ok)

Spec == Init /\ [][Next]_vars

\* the next step of a background task.  FastAPI runs every task added with
\* background_tasks.add_task after the response, on the event loop; the
\* executor call and each awaited request come back, so a task that can take
\* its next step eventually takes it
TaskStep(t) ==
    \/ BgStart(t)
    \/ BgExtractRaise(t)
    \/ BgExtractReturn(t)
    \/ \E emb_ok \in BOOLEAN, add_ok \in BOOLEAN : BgEmbed(t, emb_ok, add_ok)

SpecFair == Spec /\ \A t \in Tasks : WF_vars(TaskStep(t))

\* the ingestion system together with callers of search_similar
SearchStep ==
    \E pdf_ids \in SUBSET Docs, top_k \in 1..(2 * MaxSources), emb_ok \in BOOLEAN,
       query_ok \in BOOLEAN : SearchSimilar(pdf_ids, top_k, emb_ok, query_ok)

NextStore == Next \/ SearchStep

SpecStore == Init /\ [][NextStore]_vars

\* ------------------------------------------------------------------------
\* The query pipeline over a populated collection
\* ------------------------------------------------------------------------
MaxStored == 3

\* what the collection can hold when questions arrive: the entries of up to
\* MaxStored chunks, as vectorize_document stores them
StoredCollection(stored) ==
    [c \in ChunkIds |-> IF c \in stored
                        THEN [pdf_id |-> c[1], created_by |-> 1, embedding |-> "vector",
                              content |-> ChunkContent(c)]
                        ELSE NoEntry]

InitQuery ==
    /\ pdf_rows = [d \in Docs |-> NoRow]
    /\ uploaded = 0
    /\ file_chunks = [d \in Docs |-> 0]
    /\ file_on_disk = [d \in Docs |-> FALSE]
    /\ \E stored \in SUBSET ChunkIds :
          /\ Cardinality(stored) <= MaxStored
          /\ collection = StoredCollection(stored)
    /\ tasks = [t \in Tasks |-> IdleTask]
    /\ search_out = NoSearch
    /\ q_out = NoAnswer
    /\ retrieval = NoRetrieval
    /\ context_out = NoContext
    /\ chunker_out = NoChunks
    /\ vector_store = NoVectorStore
    /\ cleaner_out = NoCleaning
    /\ doc = NoDocument
    /\ chat = NoChat

NextQuery ==
    \/ \E question \in Questions, pdf_ids \in SUBSET Docs, max_sources \in 1..MaxSources,
          client \in BOOLEAN : QAsk(question, pdf_ids, max_sources, client)
    \/ \E emb_ok \in BOOLEAN, query_ok \in BOOLEAN : QRetrieve(emb_ok, query_ok)
    \/ \E llm_ok \in BOOLEAN : QGenerate(llm_ok)

SpecQuery == InitQuery /\ [][NextQuery]_vars

\* _retrieve_relevant_chunks over the same collections, for every max_sources
NextRetrieval ==
    \E pdf_ids \in SUBSET Docs, max_sources \in 0..MaxSources, emb_ok \in BOOLEAN,
       query_ok \in BOOLEAN : Retrieve(pdf_ids, max_sources, emb_ok, query_ok)

SpecRetrieval == InitQuery /\ [][NextRetrieval]_vars

\* the two context builders over lists of chunks
SpecContext == Init /\ [][NextContext]_vars

\* get_embeddings_batch over lists of texts and batch sizes
SpecEmbedBatch == Init /\ [][NextEmbedBatch]_vars

\* the standalone store, opened on a persisted collection
InitVectorStore ==
    /\ pdf_rows = [d \in Docs |-> NoRow]
    /\ uploaded = 0
    /\ file_chunks = [d \in Docs |-> 0]
    /\ file_on_disk = [d \in Docs |-> FALSE]
    /\ collection = [c \in ChunkIds |-> NoEntry]
    /\ tasks = [t \in Tasks |-> IdleTask]
    /\ search_out = NoSearch
    /\ q_out = NoAnswer
    /\ retrieval = NoRetrieval
    /\ context_out = NoContext
    /\ chunker_out = NoChunks
    /\ \E persisted \in PersistedCollections :
          vector_store = [NoVectorStore EXCEPT !.collection = persisted]
    /\ cleaner_out = NoCleaning
    /\ doc = NoDocument
    /\ chat = NoChat

SpecVectorStore == InitVectorStore /\ [][NextVectorStore]_vars

\* requests to add_pdfs_to_session, over the documents table as they find it
InitSession ==
    /\ pdf_rows \in [Docs -> PdfStatuses]
    /\ uploaded = 0
    /\ file_chunks = [d \in Docs |-> 0]
    /\ file_on_disk = [d \in Docs |-> FALSE]
    /\ collection = [c \in ChunkIds |-> NoEntry]
    /\ tasks = [t \in Tasks |-> IdleTask]
    /\ search_out = NoSearch
    /\ q_out = NoAnswer
    /\ retrieval = NoRetrieval
    /\ context_out = NoContext
    /\ chunker_out = NoChunks
    /\ vector_store = NoVectorStore
    /\ cleaner_out = NoCleaning
    /\ doc = NoDocument
    /\ chat = NoChat

SpecSession == InitSession /\ [][NextSession]_vars

\* one call of _clean_text
SpecCleaner == Init /\ [][NextCleaner]_vars

\* one document ingested, and ingested again on reprocess
SpecDocument == Init /\ [][NextDocument]_vars

\* the chunker over pages of up to MaxParagraphs paragraphs
SpecChunker == Init /\ [][NextChunker]_vars

\* ========================================================================
\* Properties
\* ========================================================================
Terminal == {"completed", "failed"}
Started(t) == tasks[t].pc \in {"extracting", "embedding", "done"}
\* the task alone decides the document's status: its row exists, no later
\* ingestion of the document was scheduled and every earlier one had finished
\* when this one was scheduled
Current(t) ==
    /\ RowExists(tasks[t].pdf_id)
    /\ t = LatestTask(tasks[t].pdf_id)
    /\ ~tasks[t].raced
StoredBy(t) == {c \in ChunkIds : collection[c] # NoEntry /\ collection[c].created_by = t}

\* C1: every ingestion attempt moves the status pending -> processing ->
\* completed|failed: the step that starts the background task sets processing,
\* the step that ends it writes exactly one terminal status, and no step
\* takes a status from pending straight to a terminal value.
C1_StatusLifecycle ==
    [][ /\ \A t \in Tasks :
              (tasks[t].pc = "queued" /\ tasks'[t].pc = "extracting"
                  /\ RowExists(tasks[t].pdf_id))
                  => pdf_rows'[tasks[t].pdf_id] = "processing"
        /\ \A t \in Tasks :
              (tasks[t].pc # "done" /\ tasks'[t].pc = "done"
                  /\ RowExists(tasks[t].pdf_id))
                  => (Len(tasks'[t].writes) = 1 /\ tasks'[t].writes[1] \in Terminal)
        /\ \A d \in Docs :
              pdf_rows[d] = "pending" => pdf_rows'[d] \notin Terminal ]_vars

\* C2: a document whose delete_pdf has succeeded has no chunk in the
\* collection, in any later state.
C2_DeletedHasNoChunks ==
    \A d \in Docs : Deleted(d) => EntriesOf(collection, d) = {}

\* C3: a re-ingestion finds the collection free of the document's earlier
\* entries when it writes its first chunk, and once it has completed every
\* entry of the document in the collection is one the new run wrote.  (Stated
\* for a reprocess that was requested while no other ingestion of the document
\* was unfinished.)
C3_ReprocessReplacesIndex ==
    \A t \in Tasks :
        (tasks[t].origin = "reprocess" /\ Current(t))
        => /\ (tasks[t].pc = "embedding" /\ tasks[t].i = 1)
                  => EntriesOf(collection, tasks[t].pdf_id) = {}
           /\ (Done(t) /\ tasks[t].reached_update)
                  => EntriesOf(collection, tasks[t].pdf_id) = StoredBy(t)

\* C4: while an ingestion task of a document is in progress no other
\* ingestion task of that document is queued or in progress.
C4_OneActiveTaskPerDocument ==
    \A t, u \in Tasks :
        (t # u /\ Running(t) /\ tasks[u].pdf_id = tasks[t].pdf_id)
        => tasks[u].pc \notin {"queued", "extracting", "embedding"}

\* C5: an ingestion attempt whose extraction yields an empty chunk list ends
\* with status failed.
C5_EmptyChunkListFails ==
    \A t \in Tasks :
        (Done(t) /\ tasks[t].text_chunks = 0 /\ Current(t))
        => pdf_rows[tasks[t].pdf_id] = "failed"

\* C6: when extraction throws, the status becomes failed, the attempt has
\* written no chunk, and any later ingestion of the document comes from a
\* reprocess request.
C6_ExtractionFailure ==
    \A t \in Tasks :
        (Done(t) /\ tasks[t].except_cause = "extract")
        => /\ Current(t) => pdf_rows[tasks[t].pdf_id] = "failed"
           /\ StoredBy(t) = {}
           /\ \A u \in TasksOf(tasks[t].pdf_id) : u > t => tasks[u].origin = "reprocess"

\* C7: an attempt with a non-empty chunk list in which some embedding failed
\* has gone through all of its chunks and ends with status completed.
C7_EmbeddingFailureStillCompletes ==
    \A t \in Tasks :
        (Done(t) /\ tasks[t].text_chunks > 0
            /\ \E k \in ChunkNos : tasks[t].chunk_result[k] = "emb_failed")
        => /\ tasks[t].i = tasks[t].text_chunks + 1
           /\ Current(t) => pdf_rows[tasks[t].pdf_id] = "completed"

\* C8: when an ingestion has ended on its completed branch, the collection
\* holds an entry for every chunk of the document's chunk list, and a chunk
\* whose embedding failed is there with a zero vector.
C8_EveryChunkIndexed ==
    \A t \in Tasks :
        (Done(t) /\ tasks[t].reached_update /\ Current(t))
        => \A k \in 1..tasks[t].text_chunks :
              /\ collection[<<tasks[t].pdf_id, k>>] # NoEntry
              /\ tasks[t].chunk_result[k] = "emb_failed"
                     => collection[<<tasks[t].pdf_id, k>>].embedding = "zero"

\* C9: a vector-store failure reaches the caller: an ingestion in which an
\* index write failed does not go on to the completed branch, and a
\* search_similar call whose index query failed raises instead of returning.
C9_StoreFailurePropagates ==
    /\ \A t \in Tasks :
          (Done(t) /\ \E k \in ChunkNos : tasks[t].chunk_result[k] = "add_failed")
          => ~tasks[t].reached_update
    /\ search_out.query_failed => search_out.raised

\* C10: when retrieval has produced an empty list, generate_answer has
\* returned the fallback text built from the question with an empty source
\* list, without requesting a chat completion and without raising.
C10_EmptyRetrievalFallback ==
    (q_out.retrieval_ran /\ q_out.relevant_chunks = << >>)
    => /\ q_out.pc = "returned"
       /\ q_out.answer = [kind |-> "fallback", arg |-> q_out.question]
       /\ q_out.sources = << >>
       /\ q_out.llm_calls = 0
       /\ ~q_out.raised

\* a question was asked of a collection that holds entries, none of which
\* passed the threshold, and the fallback answer came back
C10_Witness ==
    /\ q_out.pc = "returned"
    /\ q_out.retrieval_ran
    /\ q_out.relevant_chunks = << >>
    /\ q_out.answer.kind = "fallback"
    /\ q_out.question = "q2"
    /\ Matching(collection, q_out.pdf_ids) # {}

\* C11: generate_answer never raises: every call that has ended has returned
\* an answer text (fallback, error explanation or completion) with a source
\* list, and when the chat completion failed or timed out the answer is the
\* error explanation and the source list is empty.
C11_NeverRaises ==
    q_out.pc = "returned"
    => /\ ~q_out.raised
       /\ q_out.answer.kind \in {"fallback", "error", "llm"}
       /\ q_out.llm_failed => (q_out.answer.kind = "error" /\ q_out.sources = << >>)

\* chunks were retrieved, the chat completion was requested and failed
C11_Witness ==
    /\ q_out.pc = "returned"
    /\ q_out.llm_failed
    /\ q_out.llm_calls = 1
    /\ Len(q_out.relevant_chunks) = 2
    /\ q_out.answer = _generate_error_answer("llm_failed")

\* C12: every chunk a query returns belongs to a document of the supplied
\* filter list, the empty list included.
C12_FilterRespected ==
    q_out.retrieval_ran
    => \A j \in 1..Len(q_out.relevant_chunks) :
          q_out.relevant_chunks[j].pdf_id \in q_out.pdf_ids

\* two results whose word sets have Jaccard similarity above 0.8
NearDuplicate(x, y) ==
    LET w1 == ContentWords(x.content)
        w2 == ContentWords(y.content)
    IN  5 * Cardinality(w1 \cap w2) > 4 * Cardinality(w1 \cup w2)

InResults(x, results) == \E j \in 1..Len(results) : results[j] = x

RankOrdered(results) ==
    \A j, k \in 1..Len(results) : j < k => results[j].rank < results[k].rank

Examined(x) ==
    LET rc == retrieval.relevant_chunks
    IN  \/ Len(rc) < retrieval.max_sources
        \/ (Len(rc) > 0 /\ x.rank <= rc[Len(rc)].rank)

C15_OverfetchAndCap ==
    retrieval.called
    => LET sr == retrieval.search_results
           rc == retrieval.relevant_chunks
       IN  /\ retrieval.top_k = 2 * retrieval.max_sources
           /\ Len(retrieval.resp) <= retrieval.top_k
           /\ Len(rc) <= retrieval.max_sources
           /\ Len(rc) < retrieval.max_sources
                 => \A j \in 1..Len(sr) :
                       \/ InResults(sr[j], rc)
                       \/ \E k \in 1..Len(rc) :
                              rc[k].rank < sr[j].rank /\ NearDuplicate(sr[j], rc[k])

\* with max_sources = 1 two distinct candidates passed the threshold and only
\* the first came back
C15_Witness ==
    /\ retrieval.called
    /\ retrieval.max_sources = 1
    /\ Len(retrieval.resp) = 2
    /\ Len(retrieval.search_results) = 2
    /\ ~NearDuplicate(retrieval.search_results[1], retrieval.search_results[2])
    /\ retrieval.relevant_chunks = <<retrieval.search_results[1]>>

\* C16: on a successful answer the source list has one Source per retrieved
\* chunk, in the same order, for that chunk and with its similarity score,
\* and no excerpt is longer than 200 characters.
C16_SourcesMirrorResults ==
    (q_out.pc = "returned" /\ q_out.answer = LLMAnswer)
    => /\ Len(q_out.sources) = Len(q_out.relevant_chunks)
       /\ \A j \in 1..Len(q_out.sources) :
             /\ q_out.sources[j].id = q_out.relevant_chunks[j].id
             /\ q_out.sources[j].similarity_score
                    = q_out.relevant_chunks[j].similarity_score
             /\ q_out.sources[j].content_len <= 200

\* str is the first StrLen(str) characters of full
IsPrefix(str, full) ==
    /\ Len(str) <= Len(full)
    /\ \A k \in 1..Len(str) :
          IF k < Len(str) THEN str[k] = full[k]
          ELSE /\ str[k].kind = full[k].kind
               /\ str[k].n = full[k].n
               /\ str[k].len <= full[k].len

\* C17: _build_context lays the chunks out in the order given, the i-th
\* under a source marker numbered i; both builders return the assembled text
\* unchanged when it is no longer than the maximum (4000 for an answer, 6000
\* for a summary) and otherwise its first maximum characters followed by
\* "...".
C17_ContextBounded ==
    context_out.called
    => LET n == Len(context_out.chunks)
           assembled == context_out.assembled
           context == context_out.context
           max == IF context_out.fn = "_build_context" THEN 4000 ELSE 6000
       IN  /\ context_out.fn = "_build_context"
                 => /\ Len(assembled) = 5 * n - 1
                    /\ \A i \in 1..n :
                          /\ assembled[5 * i - 4] = [kind |-> "source", n |-> i, len |-> 23]
                          /\ assembled[5 * i - 2] =
                                 [kind |-> "content", n |-> i,
                                  len |-> context_out.chunks[i].content_len]
           /\ IF StrLen(assembled) > max
              THEN /\ StrLen(context) = max + 3
                   /\ context[Len(context)] = [kind |-> "ellipsis", n |-> 0, len |-> 3]
                   /\ IsPrefix(SubSeq(context, 1, Len(context) - 1), assembled)
              ELSE context = assembled

\* two chunks whose parts come to 4226 characters: the context is cut inside
\* the second chunk's content and ends with "..."
C17_Witness ==
    /\ context_out.called
    /\ context_out.fn = "_build_context"
    /\ Len(context_out.chunks) = 2
    /\ context_out.chunks[1].content_len = 200
    /\ context_out.chunks[2].content_len = 3975
    /\ StrLen(context_out.assembled) = 4226
    /\ Len(context_out.context) = 9
    /\ context_out.context[8] = [kind |-> "content", n |-> 2, len |-> 3750]
    /\ context_out.context[9].kind = "ellipsis"

\* C18: when no paragraph of the page is longer than chunk_size, every chunk
\* is at most chunk_size characters long, and every chunk but the last is
\* exactly that long.
C18_ChunkWithinSize ==
    (chunker_out.called
        /\ \A k \in 1..Len(chunker_out.paragraphs) : chunker_out.paragraphs[k] <= 1000)
    => \A j \in 1..Len(chunker_out.chunks) :
          /\ chunker_out.chunks[j].chunk_size <= 1000
          /\ j < Len(chunker_out.chunks) => chunker_out.chunks[j].chunk_size = 1000

\* the i-th character of a string: which character of which paragraph or
\* separator it is
RECURSIVE CharAt(_, _)
CharAt(str, i) ==
    IF i <= Head(str).len
    THEN <<Head(str).kind, Head(str).n, Head(str).start + i - 1>>
    ELSE CharAt(Tail(str), i - Head(str).len)

\* C19: with an overlap above 0, each chunk after the first starts with the
\* last `overlap` characters of the chunk before it; with overlap 0 it starts
\* with the beginning of a paragraph that comes after those of the chunk
\* before it.
C19_OverlapCarried ==
    chunker_out.called
    => \A j \in 1..(Len(chunker_out.chunks) - 1) :
          LET prev == chunker_out.chunks[j].content
              next == chunker_out.chunks[j + 1].content
              overlap == chunker_out.chunk_overlap
          IN  IF overlap > 0
              THEN /\ StrLen(prev) >= overlap
                   /\ StrLen(next) >= overlap
                   /\ \A c \in 1..overlap :
                         CharAt(next, c) = CharAt(prev, StrLen(prev) - overlap + c)
              ELSE /\ next[1].kind = "para"
                   /\ next[1].start = 0
                   /\ next[1].n > prev[Len(prev)].n

\* a paragraph of 1000 characters, a blank part and one of 600: the second
\* chunk opens with characters 800..999 of the first paragraph
C19_Witness ==
    /\ chunker_out.called
    /\ chunker_out.paragraphs = <<1000, 0, 600>>
    /\ chunker_out.chunk_overlap = 200
    /\ Len(chunker_out.chunks) = 2
    /\ chunker_out.chunks[2].content[1] = [kind |-> "para", n |-> 1, start |-> 800, len |-> 200]
    /\ chunker_out.chunks[2].chunk_size = 802

\* str[n:]
RECURSIVE Drop(_, _)
Drop(str, n) ==
    IF str = << >> \/ n <= 0 THEN str
    ELSE IF Head(str).len <= n THEN Drop(Tail(str), n - Head(str).len)
    ELSE <<[Head(str) EXCEPT !.start = @ + n, !.len = @ - n]>> \o Tail(str)

\* the chunks from the j-th on, each without its seed, one after the other
RECURSIVE WithoutSeeds(_, _, _)
WithoutSeeds(chunks, j, overlap) ==
    IF j > Len(chunks) THEN << >>
    ELSE (IF j = 1 THEN chunks[j].content ELSE Drop(chunks[j].content, overlap))
         \o WithoutSeeds(chunks, j + 1, overlap)

IsParagraph(piece) == piece.kind = "para"
NotBlank(piece) == piece.len > 0

\* C20: a page with a paragraph that is not blank yields at least one chunk,
\* and the chunks, each after the first without its leading `overlap`
\* characters, hold one after the other every such paragraph of the page,
\* whole and in order.
C20_ChunksCoverPage ==
    chunker_out.called
    => LET paragraphs == chunker_out.paragraphs
           chunks == chunker_out.chunks
       IN  /\ (\E k \in 1..Len(paragraphs) : paragraphs[k] > 0) => Len(chunks) >= 1
           /\ SelectSeq(WithoutSeeds(chunks, 1, chunker_out.chunk_overlap), IsParagraph)
                 = SelectSeq([k \in 1..Len(paragraphs) |->
                                  [kind |-> "para", n |-> k, start |-> 0,
                                   len |-> paragraphs[k]]], NotBlank)

\* paragraphs of 900, 150 and 600 characters: the first chunk holds two of
\* them, the second its seed and the third
C20_Witness ==
    /\ chunker_out.called
    /\ chunker_out.paragraphs = <<900, 150, 600>>
    /\ chunker_out.chunk_overlap = 200
    /\ Len(chunker_out.chunks) = 2
    /\ chunker_out.chunks[1].chunk_size = 1052
    /\ chunker_out.chunks[2].chunk_size = 802

\* C21: get_embeddings_batch returns one vector per text, in the order of
\* the texts: a zero vector of 1536 dimensions for each text of a batch whose
\* provider call failed, the provider's vector of the text otherwise,
\* whichever batches failed; it does not raise.
C21_OneVectorPerText ==
    vector_store.batch.called
    => LET b == vector_store.batch
       IN  /\ ~b.raised
           /\ Len(b.embeddings) = Len(b.texts)
           /\ \A j \in 1..Len(b.texts) :
                 IF ((j - 1) \div b.batch_size) + 1 \in b.failed
                 THEN b.embeddings[j] = [kind |-> "zero", dim |-> 1536, of |-> 0]
                 ELSE b.embeddings[j] = [kind |-> "vector", dim |-> 1536, of |-> b.texts[j]]

\* four texts in batches of two, the first batch failed: two zero vectors,
\* then the provider's vectors of texts 3 and 4
C21_Witness ==
    /\ vector_store.batch.called
    /\ Len(vector_store.batch.texts) = 4
    /\ vector_store.batch.batch_size = 2
    /\ vector_store.batch.failed = {1}
    /\ vector_store.batch.embeddings[2].kind = "zero"
    /\ vector_store.batch.embeddings[3] = [kind |-> "vector", dim |-> 1536, of |-> 3]
    /\ Len(vector_store.batch.embeddings) = 4

\* C22: when a reprocess races an ingestion of the same document that is
\* still in flight, both tasks run to their end, and the step by which the
\* last of the document's tasks ends writes one terminal status, which is the
\* document's status after that step.
C22_LastFinisherWins ==
    [][ \A t \in Tasks :
          LET d == tasks[t].pdf_id
          IN  (/\ tasks[t].pc \notin {"idle", "done"} /\ tasks'[t].pc = "done"
               /\ RowExists(d)
               /\ \E u \in TasksOf(d) : tasks[u].raced
               /\ \A u \in TasksOf(d) \ {t} : Done(u))
              => /\ Len(tasks'[t].writes) = 1
                 /\ tasks'[t].writes[1] \in Terminal
                 /\ pdf_rows'[d] = tasks'[t].writes[1] ]_vars

C24_SearchAfterResetAndAdd ==
    (vector_store.search.called /\ vector_store.gen >= 1 /\ vector_store.valid_add)
    => LET results == vector_store.search.results
       IN  /\ Len(results) >= 1
           /\ Len(results) <= vector_store.search.n_results
           /\ \A j \in 1..Len(results) :
                  /\ vector_store.collection[results[j].text] # NoVSEntry
                  /\ vector_store.collection[results[j].text].gen = vector_store.gen

\* C25: with chunk_size 1000 and overlap 200, a cleaned page of 2500
\* characters (one paragraph: cleaning leaves no paragraph break) is split
\* into exactly 3 chunks.
C25_ThreeChunksFor2500 ==
    (chunker_out.called /\ chunker_out.chunk_overlap = 200
        /\ chunker_out.paragraphs = <<2500>>)
    => Len(chunker_out.chunks) = 3

\* C26: a two-page document whose first page cleans to 1500 characters and
\* whose second to 400, uploaded and ingested without a failure, ends with two
\* chunks of page 1 and one chunk of page 2, all three in the index, and
\* status completed.
C26_TwoPageDocumentIngested ==
    (/\ doc.pc = "done" /\ doc.reached_update
     /\ doc.pages = <<1500, 400>> /\ doc.skipped = 0)
    => LET cs == doc.text_chunks
       IN  /\ Cardinality({j \in 1..Len(cs) : cs[j].page_number = 1}) = 2
           /\ Cardinality({j \in 1..Len(cs) : cs[j].page_number = 2}) = 1
           /\ {e.id : e \in doc.stored} = {cs[j].id : j \in 1..Len(cs)}
           /\ Cardinality(doc.stored) = 3
           /\ doc.status = "completed"

\* the words of a text: its maximal runs of non-whitespace characters
RECURSIVE WordsFrom(_, _, _)
WordsFrom(text, i, cur) ==
    IF i > Len(text) THEN (IF cur = << >> THEN << >> ELSE <<cur>>)
    ELSE IF IsSpace(text[i])
         THEN (IF cur = << >> THEN << >> ELSE <<cur>>) \o WordsFrom(text, i + 1, << >>)
    ELSE WordsFrom(text, i + 1, Append(cur, text[i]))

Words(text) == WordsFrom(text, 1, << >>)

\* the words of the input lines that are neither digit-only nor of trimmed
\* length 3 or less, in order
RECURSIVE WordsOfKeptLines(_)
WordsOfKeptLines(lines) ==
    IF lines = << >> THEN << >>
    ELSE (IF IsPageNumberLine(lines[1]) \/ Len(Strip(lines[1])) <= 3
          THEN << >> ELSE Words(lines[1]))
         \o WordsOfKeptLines(Tail(lines))

\* C27: _clean_text removes every input line that is digits only and every
\* input line of trimmed length 3 or less, and keeps the content of every
\* other line with whitespace runs collapsed: the words of the output are the
\* words of the kept lines, in order.  Empty input yields empty output.
C27_CleanerRemovesLines ==
    cleaner_out.called
    => /\ Words(cleaner_out.cleaned) = WordsOfKeptLines(SplitLines(cleaner_out.text))
       /\ cleaner_out.text = << >> => cleaner_out.cleaned = << >>

\* C28: under fair scheduling of the background tasks, a document whose status
\* is pending eventually has status completed or failed, unless it is deleted.
C28_EventuallyTerminal ==
    \A d \in Docs :
        (pdf_rows[d] = "pending") ~> (pdf_rows[d] \in Terminal \/ ~RowExists(d))

\* the chunk ends with the last character of the page's last paragraph that
\* is not blank
EndsThePage(chunk, paragraphs) ==
    LET last == chunk.content[Len(chunk.content)]
    IN  /\ last.kind = "para"
        /\ last.start + last.len = paragraphs[last.n]
        /\ \A k \in (last.n + 1)..Len(paragraphs) : paragraphs[k] = 0

\* C29: with an overlap above 0, when the last paragraph of the page is the
\* one that brings the buffer to chunk_size or more, the chunk emitted there
\* is followed by exactly one more chunk, whose text is the last `overlap`
\* characters of that chunk; a page of one paragraph of chunk_size or more
\* characters yields two chunks, the paragraph and its last `overlap`
\* characters.
C29_SeedOnlyFinalChunk ==
    (chunker_out.called /\ chunker_out.chunk_overlap > 0)
    => LET chunks == chunker_out.chunks
           paragraphs == chunker_out.paragraphs
           overlap == chunker_out.chunk_overlap
           nonblank == {k \in 1..Len(paragraphs) : paragraphs[k] > 0}
       IN  /\ \A j \in 1..Len(chunks) :
                  (chunks[j].chunk_size >= chunk_size /\ EndsThePage(chunks[j], paragraphs))
                  => /\ Len(chunks) = j + 1
                     /\ chunks[j + 1].chunk_size = overlap
                     /\ \A c \in 1..overlap :
                            CharAt(chunks[j + 1].content, c)
                               = CharAt(chunks[j].content, chunks[j].chunk_size - overlap + c)
           /\ \A k \in nonblank :
                  (nonblank = {k} /\ paragraphs[k] >= chunk_size)
                  => /\ Len(chunks) = 2
                     /\ chunks[1].content = <<ParaPiece(k, paragraphs[k])>>
                     /\ chunks[2].content =
                            <<[kind |-> "para", n |-> k,
                               start |-> paragraphs[k] - overlap, len |-> overlap]>>

\* two paragraphs of 600 characters: the second brings the buffer to 1202,
\* and the page ends with a chunk of the last 200 characters of the second
C29_Witness ==
    /\ chunker_out.called
    /\ chunker_out.paragraphs = <<600, 600>>
    /\ chunker_out.chunk_overlap = 200
    /\ Len(chunker_out.chunks) = 2
    /\ chunker_out.chunks[1].chunk_size = 1202
    /\ chunker_out.chunks[2].content =
           <<[kind |-> "para", n |-> 2, start |-> 400, len |-> 200]>>

====
